---- MODULE Spec2Model ----
(***************************************************************************)
(* Tower-defense game of src/game.js: Game, Tower, Enemy, Projectile and   *)
(* WaveManager.                                                            *)
(*                                                                         *)
(* Numbers.  The source computes with IEEE doubles; the model computes     *)
(* with integers in fixed point:                                           *)
(*   - a length or coordinate is counted in thirds of a pixel, because     *)
(*     createPath divides GRID_WIDTH by 3 (Px(n) is n pixels);             *)
(*   - a duration is counted in twelfths of a second (Sec(n) is n          *)
(*     seconds), so that every enemy speed times a duration is a whole     *)
(*     number of thirds of a pixel;                                        *)
(*   - fireRate and fireCooldown are exact fractions <<num, den>>.         *)
(* Comparisons of distances (range, hit radius, waypoint epsilon) are      *)
(* made on squares and are exact; only the normalised direction of a       *)
(* movement that is not parallel to an axis is rounded (ISqrt, Toward).    *)
(***************************************************************************)
EXTENDS Integers, Sequences, FiniteSets, TLC

Px(n) == 3 * n
Sec(n) == 12 * n

CANVAS_WIDTH == 800
CANVAS_HEIGHT == 600
GRID_SIZE == 40
GRID_WIDTH == CANVAS_WIDTH \div GRID_SIZE
GRID_HEIGHT == CANVAS_HEIGHT \div GRID_SIZE

\* a JavaScript value that may be undefined: << >> is undefined, <<v>> is v
Undefined == << >>
Some(v) == <<v>>
IsUndefined(o) == Len(o) = 0
ValueOf(o) == o[1]

\* grid cell's tower: null (line 85), else the tower's position in this.towers
NoTower == 0

(***************************** arithmetic *********************************)
Abs(a) == IF a < 0 THEN -a ELSE a

\* a / b rounded toward zero (b > 0)
Quot(a, b) == IF a >= 0 THEN a \div b ELSE -((-a) \div b)

RECURSIVE GCD(_, _)
GCD(a, b) == IF b = 0 THEN a ELSE GCD(b, a % b)

\* the fraction n/d in lowest terms (d > 0)
Frac(n, d) == LET g == GCD(Abs(n), d) IN <<n \div g, d \div g>>

RECURSIVE ISqrtIter(_, _, _)
ISqrtIter(n, lo, hi) ==
    IF lo >= hi THEN lo
    ELSE LET mid == (lo + hi + 1) \div 2
         IN  IF mid * mid <= n THEN ISqrtIter(n, mid, hi)
                               ELSE ISqrtIter(n, lo, mid - 1)

\* Math.sqrt, rounded down
ISqrt(n) == ISqrtIter(n, 0, 46340)

Dist2(dx, dy) == dx * dx + dy * dy

\* (d / dist) * step for dist = Math.sqrt(dx*dx + dy*dy)
Toward(d, dist2, step) == Quot(d * step, ISqrt(dist2))

(************************* static configuration ***************************)
\* Game.constructor, this.towerTypes
towerTypes ==
    [basic  |-> [cost |-> 50,  damage |-> 10, range |-> 100, fireRate |-> <<1, 1>>],
     sniper |-> [cost |-> 100, damage |-> 30, range |-> 200, fireRate |-> <<1, 2>>],
     rapid  |-> [cost |-> 75,  damage |-> 5,  range |-> 80,  fireRate |-> <<3, 1>>],
     splash |-> [cost |-> 120, damage |-> 15, range |-> 90,  fireRate |-> <<6, 5>>]]

\* Game.constructor, this.enemyTypes; speed is in tenths (1, 2, 0.5, 0.3)
enemyTypes ==
    [basic |-> [health |-> 50,  speed |-> 10, reward |-> 10],
     fast  |-> [health |-> 30,  speed |-> 20, reward |-> 15],
     tank  |-> [health |-> 150, speed |-> 5,  reward |-> 30],
     boss  |-> [health |-> 300, speed |-> 3,  reward |-> 100]]

\* WaveManager.createWaves
createWaves ==
    << <<"basic", "basic", "basic", "basic", "basic">>,
       <<"basic", "fast", "basic", "fast">>,
       <<"basic", "basic", "tank", "basic">>,
       <<"fast", "fast", "fast", "tank">>,
       <<"tank", "tank", "basic", "basic", "fast", "fast">>,
       <<"boss", "basic", "basic", "tank">> >>

\* WaveManager.constructor followed by createWaves; spawnTimer does not exist yet
NewWaveManager ==
    [waves |-> createWaves, currentWaveIndex |-> 0, waveCooldown |-> 0,
     waveInterval |-> Sec(5), totalWaves |-> Len(createWaves),
     spawnTimer |-> Undefined]

(****************************** path and grid ******************************)
\* Game.createPath.  GRID_WIDTH / 3 is not a whole number: the loop bounds
\* and the products are taken in thirds, which is what Px counts.
createPath ==
    LET startY == (GRID_HEIGHT \div 2) * GRID_SIZE
        right1 == [i \in 1..(GRID_WIDTH \div 3) |->
                     [x |-> Px(i * GRID_SIZE), y |-> Px(startY)]]
        down   == [i \in 1..(GRID_HEIGHT \div 3) |->
                     [x |-> GRID_WIDTH * GRID_SIZE, y |-> Px(startY + i * GRID_SIZE)]]
        right2 == [k \in 1..((2 * GRID_WIDTH) \div 3) |->
                     [x |-> (GRID_WIDTH + 3 * k) * GRID_SIZE,
                      y |-> Px(startY) + GRID_HEIGHT * GRID_SIZE]]
    IN  << [x |-> 0, y |-> Px(startY)] >> \o right1 \o down \o right2

InGrid(gx, gy) == gy >= 0 /\ gy < GRID_HEIGHT /\ gx >= 0 /\ gx < GRID_WIDTH

\* Math.floor(coordinate / GRID_SIZE)
CellOf(c) == c \div Px(GRID_SIZE)

\* Game.createGrid when this.path holds thisPath.  this.path.forEach (line 89)
\* raises a TypeError when this.path is undefined: threw is then TRUE and no
\* grid is returned.  Every waypoint of createPath lies inside the grid.
createGrid(thisPath) ==
    IF IsUndefined(thisPath) THEN [threw |-> TRUE, grid |-> << >>]
    ELSE LET p == ValueOf(thisPath)
             onPath == {c \in {<<CellOf(p[i].x), CellOf(p[i].y)>> : i \in 1..Len(p)} :
                          InGrid(c[1], c[2])}
         IN  [threw |-> FALSE,
              grid |-> [gy \in 0..(GRID_HEIGHT - 1) |->
                         [gx \in 0..(GRID_WIDTH - 1) |->
                           [walkable |-> <<gx, gy>> \notin onPath,
                            tower |-> NoTower]]]]

(********************************* Tower ***********************************)
\* Tower.constructor; x, y in thirds of a pixel, fireCooldown in twelfths of a second.
\* History: h_shots counts the projectiles the tower pushed, h_tickShots those
\* of the latest Tower.update call, h_sinceShot is the simulated time since
\* the last shot, h_rate the fireRate at the last shot, h_gap the simulated
\* time between the last two shots and h_gapRate the fireRate at the earlier
\* of the two, h_target the enemy of the last shot (0: none) and h_shotAt the
\* rank in h_dts of the Game.update call of the last shot.
NewTower(x, y, type, stats) ==
    [x |-> x, y |-> y, type |-> type, damage |-> stats.damage, range |-> stats.range,
     fireRate |-> stats.fireRate, level |-> 1, fireCooldown |-> <<0, 1>>,
     upgradeCost |-> 50,
     h_shots |-> 0, h_tickShots |-> 0, h_sinceShot |-> 0, h_rate |-> stats.fireRate,
     h_gap |-> 0, h_gapRate |-> stats.fireRate, h_target |-> 0, h_shotAt |-> 0,
     h_targetHealth |-> 0]

\* Tower.upgrade
upgrade(t) ==
    [t EXCEPT !.level = t.level + 1,
              !.damage = (t.damage * 3) \div 2,
              !.range = t.range + 10,
              !.fireRate = Frac(t.fireRate[1] * 11, t.fireRate[2] * 10),
              !.upgradeCost = t.upgradeCost + 25]

(********************************** Game ***********************************)
\* The fields Game.constructor assigns (lines 41-53), for a grid and a path.
\* The h_ fields are history, not program state: h_spawned counts the Enemy
\* objects created so far (an enemy's id is its rank of creation), h_credit[id]
\* is how often enemy id's reward was paid, h_fate[id] tells how it left the
\* live collection, h_dead holds the enemies whose health a hit took to <= 0,
\* h_staleHit those that were hit while outside the live collection, h_dts
\* lists the deltaTime of every Game.update call that ran past line 189,
\* h_born[id] is the rank in h_dts of the call that created enemy id, and
\* h_advanced[k] the rank of the call that advanced the wave index to k,
\* h_gone[id] the rank of the call that removed enemy id (0: not removed),
\* h_aimed the live collection as the towers of the latest call found it,
\* h_lost[id] how many lives enemy id took, and h_deadPast the enemies that had
\* health <= 0 and x > CANVAS_WIDTH when the enemy loop removed them.
\* detached holds the Enemy objects that left this.enemies and that some
\* projectile still refers to (what the garbage collector must keep).
NewGame(grid, path) ==
    [towers |-> << >>, enemies |-> << >>, projectiles |-> << >>,
     waveManager |-> NewWaveManager,
     money |-> 150, score |-> 0, lives |-> 20,
     gameOver |-> FALSE, gameWon |-> FALSE,
     selectedTowerType |-> "basic", placingTower |-> FALSE,
     grid |-> grid, path |-> path,
     detached |-> << >>,
     h_spawned |-> 0, h_credit |-> << >>, h_fate |-> << >>,
     h_dead |-> {}, h_staleHit |-> {}, h_dts |-> << >>,
     h_born |-> << >>, h_advanced |-> << >>, h_gone |-> << >>,
     h_aimed |-> << >>, h_lost |-> << >>, h_deadPast |-> {}]

\* Game.startPlacingTower
startPlacingTower(G, type) ==
    IF type \in DOMAIN towerTypes
    THEN [G EXCEPT !.selectedTowerType = type, !.placingTower = TRUE]
    ELSE G

\* variant of UpgradeCost: the cost is computed after the level was incremented
UpgradeCost_AfterIncrement(t) == (t.level + 1) * 25 + 50

\* the cost Game.upgradeTower computes (line 167)
UpgradeCost(t) == t.level * 25 + 50

\* variant of upgradeTower: without the funds, the tower is upgraded for free
upgradeTower_FreeWhenPoor(G, i) ==
    LET upgradeCost == UpgradeCost(G.towers[i])
    IN  IF G.money >= upgradeCost
        THEN [G EXCEPT !.money = G.money - upgradeCost,
                       !.towers[i] = upgrade(G.towers[i])]
        ELSE [G EXCEPT !.towers[i] = upgrade(G.towers[i])]

\* variant of upgradeTower: the cost is deducted whatever the money
upgradeTower_NoFundsCheck(G, i) ==
    LET upgradeCost == UpgradeCost(G.towers[i])
    IN  [G EXCEPT !.money = G.money - upgradeCost,
                  !.towers[i] = upgrade(G.towers[i])]

\* Game.upgradeTower on this.towers[i]
upgradeTower(G, i) ==
    LET upgradeCost == UpgradeCost(G.towers[i])
    IN  IF G.money >= upgradeCost
        THEN [G EXCEPT !.money = G.money - upgradeCost,
                       !.towers[i] = upgrade(G.towers[i])]
        ELSE G

\* the condition of line 129
Walkable(grid, gx, gy) == InGrid(gx, gy) /\ grid[gy][gx].walkable

\* the towers the upgrade loop of handleClick accepts for a click at (x, y)
InRangeOfClick(G, x, y) ==
    {i \in 1..Len(G.towers) :
        Dist2(Px(x) - G.towers[i].x, Px(y) - G.towers[i].y)
            <= Px(G.towers[i].range) * Px(G.towers[i].range)}

\* variant of PlaceTower: any cell of the grid is accepted, walkable or not
PlaceTower_AnyCell(G, gridX, gridY) ==
    IF InGrid(gridX, gridY)
    THEN LET towerType == towerTypes[G.selectedTowerType]
         IN  IF G.money >= towerType.cost
             THEN LET tower == NewTower(Px(gridX * GRID_SIZE + GRID_SIZE \div 2),
                                        Px(gridY * GRID_SIZE + GRID_SIZE \div 2),
                                        G.selectedTowerType, towerType)
                  IN  [G EXCEPT !.money = G.money - towerType.cost,
                                !.towers = Append(G.towers, tower),
                                !.grid[gridY][gridX] =
                                    [walkable |-> FALSE, tower |-> Len(G.towers) + 1],
                                !.placingTower = FALSE]
             ELSE G
    ELSE G

\* the placing branch of Game.handleClick (lines 128-146)
PlaceTower(G, gridX, gridY) ==
    IF Walkable(G.grid, gridX, gridY)
    THEN LET towerType == towerTypes[G.selectedTowerType]
         IN  IF G.money >= towerType.cost
             THEN LET tower == NewTower(Px(gridX * GRID_SIZE + GRID_SIZE \div 2),
                                        Px(gridY * GRID_SIZE + GRID_SIZE \div 2),
                                        G.selectedTowerType, towerType)
                  IN  [G EXCEPT !.money = G.money - towerType.cost,
                                !.towers = Append(G.towers, tower),
                                !.grid[gridY][gridX] =
                                    [walkable |-> FALSE, tower |-> Len(G.towers) + 1],
                                !.placingTower = FALSE]
             ELSE G
    ELSE G

\* Game.handleClick for a click at pixel (x, y) of the canvas
handleClick(G, x, y) ==
    IF G.gameOver THEN G
    ELSE LET gridX == x \div GRID_SIZE
             gridY == y \div GRID_SIZE
         IN  IF G.placingTower
             THEN PlaceTower(G, gridX, gridY)
             ELSE LET hit == InRangeOfClick(G, x, y)
                  IN  IF hit = {} THEN G
                      ELSE upgradeTower(G, CHOOSE i \in hit : \A j \in hit : i <= j)

(********************************* Enemy ***********************************)
\* Enemy.constructor; pathIndex counts from 0 as in the source
NewEnemy(id, type, stats, path) ==
    [id |-> id, type |-> type, health |-> stats.health, maxHealth |-> stats.health,
     speed |-> stats.speed, reward |-> stats.reward, pathIndex |-> 0,
     x |-> path[1].x, y |-> path[1].y]

\* speed * GRID_SIZE * deltaTime, speed being in tenths
EnemyStep(e, dt) == (e.speed * Px(GRID_SIZE) * dt) \div (10 * Sec(1))

\* Enemy.update
EnemyUpdate(e, path, dt) ==
    IF e.pathIndex >= Len(path) - 1
    THEN [e EXCEPT !.x = e.x + EnemyStep(e, dt)]
    ELSE LET target == path[e.pathIndex + 2]
             dx == target.x - e.x
             dy == target.y - e.y
             dist2 == Dist2(dx, dy)
         IN  IF dist2 < Px(1) * Px(1)
             THEN [e EXCEPT !.pathIndex = e.pathIndex + 1]
             ELSE [e EXCEPT !.x = e.x + Toward(dx, dist2, EnemyStep(e, dt)),
                            !.y = e.y + Toward(dy, dist2, EnemyStep(e, dt))]

(****************************** WaveManager ********************************)
\* variant of WaveManagerUpdate: the spawn timer is not reset after a spawn
WaveManagerUpdate_NoReset(G, dt) ==
    LET wm == G.waveManager
    IN  IF wm.currentWaveIndex >= Len(wm.waves) THEN G
        ELSE IF wm.waveCooldown > 0
        THEN [G EXCEPT !.waveManager.waveCooldown = wm.waveCooldown - dt]
        ELSE LET wave == wm.waves[wm.currentWaveIndex + 1]
             IN  IF Len(wave) > 0
                 THEN LET timer == (IF IsUndefined(wm.spawnTimer) THEN 0
                                    ELSE ValueOf(wm.spawnTimer)) + dt
                      IN  IF timer >= Sec(1)
                          THEN LET enemyType == Head(wave)
                                   id == G.h_spawned + 1
                               IN  [G EXCEPT
                                     !.waveManager.waves[wm.currentWaveIndex + 1] = Tail(wave),
                                     !.waveManager.spawnTimer = Some(timer),
                                     !.enemies = Append(G.enemies,
                                         NewEnemy(id, enemyType, enemyTypes[enemyType], G.path)),
                                     !.h_spawned = id,
                                     !.h_credit = Append(G.h_credit, 0),
                                     !.h_fate = Append(G.h_fate, "live"),
                                     !.h_born = Append(G.h_born, Len(G.h_dts)),
                                     !.h_gone = Append(G.h_gone, 0),
                                     !.h_lost = Append(G.h_lost, 0)]
                          ELSE [G EXCEPT !.waveManager.spawnTimer = Some(timer)]
                 ELSE IF Len(G.enemies) = 0
                      THEN [G EXCEPT
                             !.waveManager.currentWaveIndex = wm.currentWaveIndex + 1,
                             !.waveManager.waveCooldown = wm.waveInterval,
                             !.waveManager.spawnTimer = Undefined,
                             !.h_advanced = Append(G.h_advanced, Len(G.h_dts))]
                      ELSE G

\* variant of WaveManagerUpdate: the cooldown between waves runs twice as fast
WaveManagerUpdate_FastCooldown(G, dt) ==
    LET wm == G.waveManager
    IN  IF wm.currentWaveIndex >= Len(wm.waves) THEN G
        ELSE IF wm.waveCooldown > 0
        THEN [G EXCEPT !.waveManager.waveCooldown = wm.waveCooldown - 2 * dt]
        ELSE LET wave == wm.waves[wm.currentWaveIndex + 1]
             IN  IF Len(wave) > 0
                 THEN LET timer == (IF IsUndefined(wm.spawnTimer) THEN 0
                                    ELSE ValueOf(wm.spawnTimer)) + dt
                      IN  IF timer >= Sec(1)
                          THEN LET enemyType == Head(wave)
                                   id == G.h_spawned + 1
                               IN  [G EXCEPT
                                     !.waveManager.waves[wm.currentWaveIndex + 1] = Tail(wave),
                                     !.waveManager.spawnTimer = Some(0),
                                     !.enemies = Append(G.enemies,
                                         NewEnemy(id, enemyType, enemyTypes[enemyType], G.path)),
                                     !.h_spawned = id,
                                     !.h_credit = Append(G.h_credit, 0),
                                     !.h_fate = Append(G.h_fate, "live"),
                                     !.h_born = Append(G.h_born, Len(G.h_dts)),
                                     !.h_gone = Append(G.h_gone, 0),
                                     !.h_lost = Append(G.h_lost, 0)]
                          ELSE [G EXCEPT !.waveManager.spawnTimer = Some(timer)]
                 ELSE IF Len(G.enemies) = 0
                      THEN [G EXCEPT
                             !.waveManager.currentWaveIndex = wm.currentWaveIndex + 1,
                             !.waveManager.waveCooldown = wm.waveInterval,
                             !.waveManager.spawnTimer = Undefined,
                             !.h_advanced = Append(G.h_advanced, Len(G.h_dts))]
                      ELSE G

\* variant of WaveManagerUpdate: the cooldown keeps running after the last wave
WaveManagerUpdate_NoEnd(G, dt) ==
    LET wm == G.waveManager
    IN  IF wm.currentWaveIndex >= Len(wm.waves)
        THEN [G EXCEPT !.waveManager.waveCooldown = wm.waveCooldown - dt]
        ELSE IF wm.waveCooldown > 0
        THEN [G EXCEPT !.waveManager.waveCooldown = wm.waveCooldown - dt]
        ELSE LET wave == wm.waves[wm.currentWaveIndex + 1]
             IN  IF Len(wave) > 0
                 THEN LET timer == (IF IsUndefined(wm.spawnTimer) THEN 0
                                    ELSE ValueOf(wm.spawnTimer)) + dt
                      IN  IF timer >= Sec(1)
                          THEN LET enemyType == Head(wave)
                                   id == G.h_spawned + 1
                               IN  [G EXCEPT
                                     !.waveManager.waves[wm.currentWaveIndex + 1] = Tail(wave),
                                     !.waveManager.spawnTimer = Some(0),
                                     !.enemies = Append(G.enemies,
                                         NewEnemy(id, enemyType, enemyTypes[enemyType], G.path)),
                                     !.h_spawned = id,
                                     !.h_credit = Append(G.h_credit, 0),
                                     !.h_fate = Append(G.h_fate, "live"),
                                     !.h_born = Append(G.h_born, Len(G.h_dts)),
                                     !.h_gone = Append(G.h_gone, 0),
                                     !.h_lost = Append(G.h_lost, 0)]
                          ELSE [G EXCEPT !.waveManager.spawnTimer = Some(timer)]
                 ELSE IF Len(G.enemies) = 0
                      THEN [G EXCEPT
                             !.waveManager.currentWaveIndex = wm.currentWaveIndex + 1,
                             !.waveManager.waveCooldown = wm.waveInterval,
                             !.waveManager.spawnTimer = Undefined,
                             !.h_advanced = Append(G.h_advanced, Len(G.h_dts))]
                      ELSE G

\* WaveManager.update
WaveManagerUpdate(G, dt) ==
    LET wm == G.waveManager
    IN  IF wm.currentWaveIndex >= Len(wm.waves) THEN G
        ELSE IF wm.waveCooldown > 0
        THEN [G EXCEPT !.waveManager.waveCooldown = wm.waveCooldown - dt]
        ELSE LET wave == wm.waves[wm.currentWaveIndex + 1]
             IN  IF Len(wave) > 0
                 THEN LET timer == (IF IsUndefined(wm.spawnTimer) THEN 0
                                    ELSE ValueOf(wm.spawnTimer)) + dt
                      IN  IF timer >= Sec(1)
                          THEN LET enemyType == Head(wave)
                                   id == G.h_spawned + 1
                               IN  [G EXCEPT
                                     !.waveManager.waves[wm.currentWaveIndex + 1] = Tail(wave),
                                     !.waveManager.spawnTimer = Some(0),
                                     !.enemies = Append(G.enemies,
                                         NewEnemy(id, enemyType, enemyTypes[enemyType], G.path)),
                                     !.h_spawned = id,
                                     !.h_credit = Append(G.h_credit, 0),
                                     !.h_fate = Append(G.h_fate, "live"),
                                     !.h_born = Append(G.h_born, Len(G.h_dts)),
                                     !.h_gone = Append(G.h_gone, 0),
                                     !.h_lost = Append(G.h_lost, 0)]
                          ELSE [G EXCEPT !.waveManager.spawnTimer = Some(timer)]
                 ELSE IF Len(G.enemies) = 0
                      THEN [G EXCEPT
                             !.waveManager.currentWaveIndex = wm.currentWaveIndex + 1,
                             !.waveManager.waveCooldown = wm.waveInterval,
                             !.waveManager.spawnTimer = Undefined,
                             !.h_advanced = Append(G.h_advanced, Len(G.h_dts))]
                      ELSE G

(************************** Game.update, by steps **************************)
\* s without its i-th element: splice(i, 1)
Splice(s, i) == SubSeq(s, 1, i - 1) \o SubSeq(s, i + 1, Len(s))

\* variant of EnemyPass: the boundary test is an if of its own, so that a dead
\* enemy past the right boundary also takes a life
EnemyPass_BothReasons(G, i, dt) ==
    LET e == EnemyUpdate(G.enemies[i], G.path, dt)
        past == e.x > Px(CANVAS_WIDTH)
    IN  IF e.health <= 0
        THEN [G EXCEPT !.money = G.money + e.reward,
                       !.score = G.score + e.reward,
                       !.lives = IF past THEN G.lives - 1 ELSE G.lives,
                       !.gameOver = (past /\ G.lives - 1 <= 0) \/ G.gameOver,
                       !.enemies = Splice(G.enemies, i),
                       !.detached = Append(G.detached, e),
                       !.h_credit[e.id] = G.h_credit[e.id] + 1,
                       !.h_fate[e.id] = "killed",
                       !.h_gone[e.id] = Len(G.h_dts),
                       !.h_lost[e.id] = IF past THEN G.h_lost[e.id] + 1 ELSE G.h_lost[e.id],
                       !.h_deadPast = IF past THEN G.h_deadPast \cup {e.id}
                                      ELSE G.h_deadPast]
        ELSE IF past
        THEN [G EXCEPT !.lives = G.lives - 1,
                       !.enemies = Splice(G.enemies, i),
                       !.detached = Append(G.detached, e),
                       !.gameOver = (G.lives - 1 <= 0) \/ G.gameOver,
                       !.h_fate[e.id] = "escaped",
                       !.h_gone[e.id] = Len(G.h_dts),
                       !.h_lost[e.id] = G.h_lost[e.id] + 1]
        ELSE [G EXCEPT !.enemies[i] = e]

\* variant of EnemyPass: an enemy that escapes pays its reward too
EnemyPass_PaidEscape(G, i, dt) ==
    LET e == EnemyUpdate(G.enemies[i], G.path, dt)
    IN  IF e.health <= 0
        THEN [G EXCEPT !.money = G.money + e.reward,
                       !.score = G.score + e.reward,
                       !.enemies = Splice(G.enemies, i),
                       !.detached = Append(G.detached, e),
                       !.h_credit[e.id] = G.h_credit[e.id] + 1,
                       !.h_fate[e.id] = "killed",
                       !.h_gone[e.id] = Len(G.h_dts),
                       !.h_deadPast = IF e.x > Px(CANVAS_WIDTH)
                                      THEN G.h_deadPast \cup {e.id} ELSE G.h_deadPast]
        ELSE IF e.x > Px(CANVAS_WIDTH)
        THEN [G EXCEPT !.lives = G.lives - 1,
                       !.money = G.money + e.reward,
                       !.score = G.score + e.reward,
                       !.enemies = Splice(G.enemies, i),
                       !.detached = Append(G.detached, e),
                       !.gameOver = (G.lives - 1 <= 0) \/ G.gameOver,
                       !.h_fate[e.id] = "escaped",
                       !.h_gone[e.id] = Len(G.h_dts),
                       !.h_lost[e.id] = G.h_lost[e.id] + 1]
        ELSE [G EXCEPT !.enemies[i] = e]

\* one pass of the enemy loop (lines 196-208) on this.enemies[i]
EnemyPass(G, i, dt) ==
    LET e == EnemyUpdate(G.enemies[i], G.path, dt)
    IN  IF e.health <= 0
        THEN [G EXCEPT !.money = G.money + e.reward,
                       !.score = G.score + e.reward,
                       !.enemies = Splice(G.enemies, i),
                       !.detached = Append(G.detached, e),
                       !.h_credit[e.id] = G.h_credit[e.id] + 1,
                       !.h_fate[e.id] = "killed",
                       !.h_gone[e.id] = Len(G.h_dts),
                       !.h_deadPast = IF e.x > Px(CANVAS_WIDTH)
                                      THEN G.h_deadPast \cup {e.id} ELSE G.h_deadPast]
        ELSE IF e.x > Px(CANVAS_WIDTH)
        THEN [G EXCEPT !.lives = G.lives - 1,
                       !.enemies = Splice(G.enemies, i),
                       !.detached = Append(G.detached, e),
                       !.gameOver = (G.lives - 1 <= 0) \/ G.gameOver,
                       !.h_fate[e.id] = "escaped",
                       !.h_gone[e.id] = Len(G.h_dts),
                       !.h_lost[e.id] = G.h_lost[e.id] + 1]
        ELSE [G EXCEPT !.enemies[i] = e]

\* the enemy loop (lines 195-209): i from the last index down to the first
RECURSIVE EnemyLoop(_, _, _)
EnemyLoop(G, i, dt) ==
    IF i < 1 THEN G ELSE EnemyLoop(EnemyPass(G, i, dt), i - 1, dt)

(**************************** Tower.update *********************************)
\* variant of FindTarget: of several enemies equally near, the last one wins
RECURSIVE FindTarget_LastOfEqual(_, _, _, _, _)
FindTarget_LastOfEqual(t, enemies, k, best, minDist2) ==
    IF k > Len(enemies) THEN best
    ELSE LET dist2 == Dist2(enemies[k].x - t.x, enemies[k].y - t.y)
         IN  IF dist2 <= Px(t.range) * Px(t.range) /\ (best = 0 \/ dist2 <= minDist2)
             THEN FindTarget_LastOfEqual(t, enemies, k + 1, k, dist2)
             ELSE FindTarget_LastOfEqual(t, enemies, k + 1, best, minDist2)

\* the target loop of Tower.update (lines 352-360) from enemies[k] on; best is
\* the index of the target so far (0: null), minDist2 its squared distance
RECURSIVE FindTarget(_, _, _, _, _)
FindTarget(t, enemies, k, best, minDist2) ==
    IF k > Len(enemies) THEN best
    ELSE LET dist2 == Dist2(enemies[k].x - t.x, enemies[k].y - t.y)
         IN  IF dist2 <= Px(t.range) * Px(t.range) /\ (best = 0 \/ dist2 < minDist2)
             THEN FindTarget(t, enemies, k + 1, k, dist2)
             ELSE FindTarget(t, enemies, k + 1, best, minDist2)

\* Projectile.constructor; speed is the constant 300 pixels a second
NewProjectile(x, y, target, damage) ==
    [x |-> x, y |-> y, target |-> target, damage |-> damage]

\* variant of FirePeriod: no cooldown after a shot
FirePeriod_None(fireRate) == <<0, 1>>

\* 1 / fireRate seconds, in twelfths of a second
FirePeriod(fireRate) == Frac(Sec(1) * fireRate[2], fireRate[1])

\* Tower.update: the tower afterwards, and the projectiles it pushed
TowerUpdate(t, dt, enemies) ==
    LET cooled == <<t.fireCooldown[1] - dt * t.fireCooldown[2], t.fireCooldown[2]>>
        target == FindTarget(t, enemies, 1, 0, 0)
    IN  IF cooled[1] <= 0 /\ target # 0
        THEN [tower |-> [t EXCEPT !.fireCooldown = FirePeriod(t.fireRate),
                                  !.h_shots = t.h_shots + 1,
                                  !.h_tickShots = 1,
                                  !.h_sinceShot = 0,
                                  !.h_rate = t.fireRate,
                                  !.h_gap = t.h_sinceShot + dt,
                                  !.h_gapRate = t.h_rate,
                                  !.h_target = enemies[target].id,
                                  !.h_targetHealth = enemies[target].health],
              fired |-> << NewProjectile(t.x, t.y, enemies[target].id, t.damage) >>]
        ELSE [tower |-> [t EXCEPT !.fireCooldown = cooled,
                                  !.h_tickShots = 0,
                                  !.h_sinceShot = t.h_sinceShot + dt],
              fired |-> << >>]

\* this.towers.forEach (lines 212-214), from towers[i] on
RECURSIVE TowerLoop(_, _, _)
TowerLoop(G, i, dt) ==
    IF i > Len(G.towers) THEN G
    ELSE LET r == TowerUpdate(G.towers[i], dt, G.enemies)
         IN  TowerLoop([G EXCEPT !.towers[i] =
                                     [r.tower EXCEPT !.h_shotAt =
                                         IF Len(r.fired) > 0 THEN Len(G.h_dts)
                                         ELSE r.tower.h_shotAt],
                                 !.projectiles = G.projectiles \o r.fired],
                       i + 1, dt)

(*************************** Projectile.update *****************************)
\* position of the enemy object id in s, 0 when it is not there
RECURSIVE IndexOfId(_, _, _)
IndexOfId(s, id, k) ==
    IF k > Len(s) THEN 0
    ELSE IF s[k].id = id THEN k ELSE IndexOfId(s, id, k + 1)

IsLive(G, id) == IndexOfId(G.enemies, id, 1) # 0

\* the Enemy object a projectile refers to, in the live collection or not
TargetOf(G, id) ==
    IF IsLive(G, id) THEN G.enemies[IndexOfId(G.enemies, id, 1)]
    ELSE G.detached[IndexOfId(G.detached, id, 1)]

\* this.target.health -= damage on the object id, wherever it is
Damage(G, id, damage) ==
    LET health == TargetOf(G, id).health - damage
        H == [G EXCEPT !.h_dead = IF health <= 0 THEN G.h_dead \cup {id} ELSE G.h_dead,
                       !.h_staleHit = IF IsLive(G, id) THEN G.h_staleHit
                                      ELSE G.h_staleHit \cup {id}]
    IN  IF IsLive(G, id)
        THEN [H EXCEPT !.enemies[IndexOfId(G.enemies, id, 1)].health = health]
        ELSE [H EXCEPT !.detached[IndexOfId(G.detached, id, 1)].health = health]

\* speed * deltaTime of a projectile
ProjectileStep(dt) == (Px(300) * dt) \div Sec(1)

\* one pass of the projectile loop (lines 218-221) on this.projectiles[i]:
\* Projectile.update, then the removal of a projectile marked for deletion
ProjectilePass(G, i, dt) ==
    LET p == G.projectiles[i]
        target == TargetOf(G, p.target)
        dx == target.x - p.x
        dy == target.y - p.y
        dist2 == Dist2(dx, dy)
    IN  IF target.health <= 0
        THEN [G EXCEPT !.projectiles = Splice(G.projectiles, i)]
        ELSE IF dist2 < Px(5) * Px(5)
        THEN [Damage(G, p.target, p.damage) EXCEPT
                 !.projectiles = Splice(G.projectiles, i)]
        ELSE [G EXCEPT !.projectiles[i].x = p.x + Toward(dx, dist2, ProjectileStep(dt)),
                       !.projectiles[i].y = p.y + Toward(dy, dist2, ProjectileStep(dt))]

RECURSIVE ProjectileLoop(_, _, _)
ProjectileLoop(G, i, dt) ==
    IF i < 1 THEN G ELSE ProjectileLoop(ProjectilePass(G, i, dt), i - 1, dt)

(******************************* Game.update *******************************)
\* the live collection as the towers of this call are about to see it
Aim(G) == [G EXCEPT !.h_aimed = G.enemies]

\* the win condition of line 225
WinCondition(G) == Len(G.waveManager.waves) = 0 /\ Len(G.enemies) = 0

\* drops the Enemy objects nothing refers to any more
Collect(G) ==
    LET referenced(e) == \E k \in 1..Len(G.projectiles) : G.projectiles[k].target = e.id
    IN  [G EXCEPT !.detached = SelectSeq(G.detached, referenced)]

\* variant of update: the towers are updated before the scheduler and the enemies
update_TowersFirst(G, deltaTime) ==
    IF G.gameOver \/ G.gameWon THEN G
    ELSE LET afterTowers ==
                 TowerLoop(Aim([G EXCEPT !.h_dts = Append(G.h_dts, deltaTime)]),
                           1, deltaTime)
             afterWaves == WaveManagerUpdate(afterTowers, deltaTime)
             afterEnemies == EnemyLoop(afterWaves, Len(afterWaves.enemies), deltaTime)
             afterProjectiles ==
                 ProjectileLoop(afterEnemies, Len(afterEnemies.projectiles), deltaTime)
         IN  Collect([afterProjectiles EXCEPT
                        !.gameWon = WinCondition(afterProjectiles) \/ G.gameWon])

\* variant of update: the projectiles are updated before the towers
update_ProjectilesBeforeTowers(G, deltaTime) ==
    IF G.gameOver \/ G.gameWon THEN G
    ELSE LET afterWaves ==
                 WaveManagerUpdate([G EXCEPT !.h_dts = Append(G.h_dts, deltaTime)], deltaTime)
             afterEnemies == EnemyLoop(afterWaves, Len(afterWaves.enemies), deltaTime)
             afterProjectiles ==
                 ProjectileLoop(afterEnemies, Len(afterEnemies.projectiles), deltaTime)
             afterTowers == TowerLoop(Aim(afterProjectiles), 1, deltaTime)
         IN  Collect([afterTowers EXCEPT
                        !.gameWon = WinCondition(afterTowers) \/ G.gameWon])

\* variant of update: without the early return of line 189
update_NoEarlyReturn(G, deltaTime) ==
    LET afterWaves ==
            WaveManagerUpdate([G EXCEPT !.h_dts = Append(G.h_dts, deltaTime)], deltaTime)
        afterEnemies == EnemyLoop(afterWaves, Len(afterWaves.enemies), deltaTime)
        afterTowers == TowerLoop(Aim(afterEnemies), 1, deltaTime)
        afterProjectiles ==
            ProjectileLoop(afterTowers, Len(afterTowers.projectiles), deltaTime)
    IN  Collect([afterProjectiles EXCEPT
                   !.gameWon = WinCondition(afterProjectiles) \/ G.gameWon])

\* Game.update
update(G, deltaTime) ==
    IF G.gameOver \/ G.gameWon THEN G
    ELSE LET afterWaves ==
                 WaveManagerUpdate([G EXCEPT !.h_dts = Append(G.h_dts, deltaTime)], deltaTime)
             afterEnemies == EnemyLoop(afterWaves, Len(afterWaves.enemies), deltaTime)
             afterTowers == TowerLoop(Aim(afterEnemies), 1, deltaTime)
             afterProjectiles ==
                 ProjectileLoop(afterTowers, Len(afterTowers.projectiles), deltaTime)
         IN  Collect([afterProjectiles EXCEPT
                        !.gameWon = WinCondition(afterProjectiles) \/ G.gameWon])

(****************************** sessions ***********************************)
\* The object Game.constructor is written to build: the fields of lines
\* 41-51, the path of createPath and the grid createGrid derives from it.
ConstructedGame ==
    NewGame(createGrid(Some(createPath)).grid, createPath)

\* An input of a session: <<"tick", dt>> is Game.update(dt) from gameLoop,
\* <<"select", type>> is startPlacingTower(type), <<"click", x, y>> is
\* handleClick for a click at pixel (x, y).
Apply(G, c) ==
    CASE c[1] = "tick" -> update(G, c[2])
      [] c[1] = "select" -> startPlacingTower(G, c[2])
      [] c[1] = "click" -> handleClick(G, c[2], c[3])

\* the game after the inputs script[k], script[k+1], ...; gameLoop asks for
\* no further frame once the game is over or won (line 183)
RECURSIVE Run(_, _, _)
Run(G, script, k) ==
    IF k > Len(script) \/ G.gameOver \/ G.gameWon THEN G
    ELSE Run(Apply(G, script[k]), script, k + 1)

\* n times the input c
Times(n, c) == [i \in 1..n |-> c]

(************************** recorded sessions ******************************)
\* Inputs of eight sessions: each is played from the constructed game by Run,
\* so the state it ends in is a state of the program.  A tick of 70 s
\* (Sec(70) = 840) lets an enemy that has just been spawned leave on the right
\* in the tick of its spawn, whatever its speed.

\* no tower; the 19 enemies of waves 1-4 and the two tanks of wave 5 escape,
\* then the first basic enemy of wave 5 is spawned: one life is left
LastLife ==
    Times(27, <<"tick", 840>>)
    \o << <<"tick", 12>> >>

\* a sniper tower beside the start of the path; wave 1 and the first enemy of
\* wave 2 escape; the tower has fired at the fast enemy that follows and the
\* projectile is about to reach it
BeforeHit ==
    << <<"select", "sniper">>, <<"click", 60, 260>> >>
    \o Times(8, <<"tick", 840>>)
    \o << <<"tick", 11>>, <<"tick", 1>>, <<"tick", 2>>, <<"tick", 2>> >>

\* as BeforeHit, but a frame of 121/12 s carries the fast enemy past the right
\* boundary while the projectile fired at it is in flight
StaleShot ==
    << <<"select", "sniper">>, <<"click", 60, 260>> >>
    \o Times(8, <<"tick", 840>>)
    \o << <<"tick", 11>>, <<"tick", 1>>, <<"tick", 121>>, <<"tick", 90>> >>

\* a whole game with one sniper tower: 9 enemies are killed, 18 escape, and
\* the last enemy of wave 6 has just left
Endgame ==
    << <<"select", "sniper">>, <<"click", 60, 260>> >>
    \o Times(4, <<"tick", 840>>)
    \o << <<"tick", 11>> >>
    \o Times(3, <<"tick", 1>>)
    \o << <<"tick", 22>>, <<"tick", 11>>, <<"tick", 12>>, <<"tick", 1>> >>
    \o Times(4, <<"tick", 840>>)
    \o << <<"tick", 11>> >>
    \o Times(3, <<"tick", 1>>)
    \o << <<"tick", 3>>, <<"tick", 840>>, <<"tick", 11>> >>
    \o Times(3, <<"tick", 1>>)
    \o << <<"tick", 3>> >>
    \o Times(6, <<"tick", 840>>)
    \o << <<"tick", 11>> >>
    \o Times(3, <<"tick", 1>>)
    \o << <<"tick", 22>>, <<"tick", 11>>, <<"tick", 12>>, <<"tick", 1>> >>
    \o Times(3, <<"tick", 840>>)
    \o << <<"tick", 11>> >>
    \o Times(3, <<"tick", 1>>)
    \o << <<"tick", 3>>, <<"tick", 19>>, <<"tick", 9>>, <<"tick", 12>>, <<"tick", 3>>,
          <<"tick", 8>>, <<"tick", 6>>, <<"tick", 1>> >>
    \o Times(7, <<"tick", 840>>)
    \o << <<"tick", 11>> >>
    \o Times(3, <<"tick", 1>>)
    \o << <<"tick", 3>>, <<"tick", 19>>, <<"tick", 9>>, <<"tick", 12>>, <<"tick", 3>> >>
    \o Times(7, <<"tick", 840>>)

\* a sniper tower; the two fast enemies of wave 2 are killed and the 19 other
\* enemies up to the second basic enemy of wave 5 escape: one life is left.
\* The first fast enemy of wave 5 stands on the waypoint (80, 280) with a
\* projectile beside it, the second has just been spawned
LastStand ==
    << <<"select", "sniper">>, <<"click", 60, 260>> >>
    \o Times(8, <<"tick", 840>>)
    \o << <<"tick", 11>> >>
    \o Times(3, <<"tick", 1>>)
    \o << <<"tick", 3>>, <<"tick", 840>>, <<"tick", 11>> >>
    \o Times(3, <<"tick", 1>>)
    \o << <<"tick", 3>> >>
    \o Times(19, <<"tick", 840>>)
    \o << <<"tick", 11>>, <<"tick", 1>>, <<"tick", 5>>, <<"tick", 10>>, <<"tick", 6>> >>

\* as BeforeHit, then two frames of 1/12 s: the projectile takes the fast
\* enemy's health to 0, and the next enemy loop removes it and pays its reward
AfterKill ==
    BeforeHit \o Times(2, <<"tick", 1>>)

\* no tower; three frames of one second: three basic enemies of wave 1 are on
\* the path and the spawn queue of the wave is ['basic', 'basic']
TwoLeft == Times(3, <<"tick", 12>>)

\* no tower; the five enemies of wave 1 escape, the wave index advances, and
\* four frames of one second pass: one second of the cooldown is left
Break ==
    Times(6, <<"tick", 840>>)
    \o Times(4, <<"tick", 12>>)

(******************************* bounds ************************************)
\* Game.update calls explored after the start of a session
MaxTicks == 2

\* frame durations: a frame of 1/12 s, one second, and 21 s (a tab that was
\* in the background)
DeltaTimes == {1, Sec(1), Sec(21)}

\* clicked pixels: cell (1,6) beside the start of the path, cell (2,7) on the
\* path, a pixel left of the canvas, cell (19,11) beside the end of the path
ClickPoints == {<<60, 260>>, <<100, 300>>, <<-5, 300>>, <<780, 460>>}

\* arguments of startPlacingTower; "laser" is no tower type
TypeInputs == {"basic", "sniper", "laser"}

(***************************** state machine *******************************)
VARIABLES
    phase,   \* "new": before new Game(canvas); "threw": the constructor raised;
             \* "running": the constructor's event handlers and game loop are active
    game,    \* the Game object and what it owns
    cmd,     \* history: the latest input
    before,  \* history: what the latest input found (see Snapshot)
    ticks    \* history: number of Game.update calls explored so far

vars == <<phase, game, cmd, before, ticks>>

\* what an input finds: the money, the towers, whether the game had ended,
\* the wave scheduler, the live enemies and the number of enemies created
Snapshot(G) ==
    [money |-> G.money, towers |-> G.towers, done |-> G.gameOver \/ G.gameWon,
     waveManager |-> G.waveManager, enemies |-> G.enemies,
     h_spawned |-> G.h_spawned, score |-> G.score]

Init ==
    /\ cmd = <<"none">>
    /\ ticks = 0
    /\ \/ /\ phase = "new"
          /\ game = NewGame(<< >>, << >>)
       \/ /\ phase = "running"
          /\ \/ game = ConstructedGame
             \/ game = Run(ConstructedGame, LastLife, 1)
             \/ game = Run(ConstructedGame, BeforeHit, 1)
             \/ game = Run(ConstructedGame, StaleShot, 1)
             \/ game = Run(ConstructedGame, AfterKill, 1)
             \/ game = Run(ConstructedGame, LastStand, 1)
             \/ game = Run(ConstructedGame, TwoLeft, 1)
             \/ game = Run(ConstructedGame, Break, 1)
             \/ game = Run(ConstructedGame, Endgame, 1)
    /\ before = Snapshot(game)

\* new Game(canvas), lines 33-78: line 52 calls createGrid while this.path is
\* still undefined (it is assigned on line 53)
Constructor ==
    /\ phase = "new"
    /\ LET made == createGrid(Undefined)
       IN  IF made.threw
           THEN /\ phase' = "threw"
                /\ game' = game
           ELSE /\ phase' = "running"
                /\ game' = [game EXCEPT !.grid = made.grid, !.path = createPath]
    /\ cmd' = <<"new">>
    /\ before' = Snapshot(game)
    /\ UNCHANGED ticks

StartPlacingTower ==
    /\ phase = "running"
    /\ \E type \in TypeInputs :
         /\ game' = startPlacingTower(game, type)
         /\ cmd' = <<"select", type>>
    /\ before' = Snapshot(game)
    /\ UNCHANGED <<phase, ticks>>

HandleClick ==
    /\ phase = "running"
    /\ \E c \in ClickPoints :
         /\ game' = handleClick(game, c[1], c[2])
         /\ cmd' = <<"click", c[1], c[2]>>
    /\ before' = Snapshot(game)
    /\ UNCHANGED <<phase, ticks>>

\* gameLoop calls update; it stops asking for frames once the game is over
\* or won, but update itself can still be called
Update ==
    /\ phase = "running"
    /\ ticks < MaxTicks
    /\ \E dt \in DeltaTimes :
         /\ game' = update(game, dt)
         /\ cmd' = <<"tick", dt>>
    /\ before' = Snapshot(game)
    /\ ticks' = ticks + 1
    /\ UNCHANGED phase

Next == Constructor \/ StartPlacingTower \/ HandleClick \/ Update

Spec == Init /\ [][Next]_vars

(******************************* properties *******************************)
\* the latest input was a Game.update call
Ticked == phase = "running" /\ cmd[1] = "tick"

\* the enemies created so far
EnemyIds == 1..game.h_spawned

\* C1: in every reachable state lives >= 0, also when several enemies pass
\* the right boundary in one tick while lives is 1.
C1_LivesNeverNegative == game.lives >= 0

\* the scheduler's wave index has reached the end of the wave list
AllComplete(G) == G.waveManager.currentWaveIndex >= Len(G.waveManager.waves)

\* C2: at the end of a tick with all waves completed, no live enemy and
\* gameOver false, gameWon is true.
C2_WonWhenAllWavesComplete ==
    (Ticked /\ AllComplete(game) /\ Len(game.enemies) = 0 /\ ~game.gameOver)
        => game.gameWon

\* C3: gameOver becomes true in the tick in which lives reaches zero, and a
\* Game.update call that finds gameOver or gameWon true changes neither money,
\* score, lives, towers, enemies, projectiles nor the wave scheduler.
C3_Step ==
    /\ (game.lives > 0 /\ game'.lives <= 0) => game'.gameOver
    /\ (cmd'[1] = "tick" /\ (game.gameOver \/ game.gameWon))
          => /\ game'.money = game.money
             /\ game'.score = game.score
             /\ game'.lives = game.lives
             /\ game'.towers = game.towers
             /\ game'.enemies = game.enemies
             /\ game'.projectiles = game.projectiles
             /\ game'.waveManager = game.waveManager
             /\ game'.gameOver = game.gameOver
             /\ game'.gameWon = game.gameWon

C3_GameOverIsTerminal == [][C3_Step]_vars

\* lives reached zero, gameOver was set, and Game.update was called again
C3_Witness ==
    /\ Ticked
    /\ before.done
    /\ game.gameOver
    /\ game.lives <= 0
    /\ Len(game.enemies) > 0

\* C4: at the end of every Game.update call no enemy of game.enemies has
\* health <= 0.
C4_NoDeadEnemyAfterUpdate ==
    Ticked => \A i \in 1..Len(game.enemies) : game.enemies[i].health > 0

\* C5: every enemy whose health a hit took to <= 0 while it was in the live
\* collection has its reward paid exactly once: never twice, and once at the
\* latest when the game has ended or the enemy has left the collection.
C5_RewardPaidOnce ==
    \A id \in EnemyIds :
        /\ game.h_credit[id] <= 1
        /\ (id \in game.h_dead /\ id \notin game.h_staleHit)
              => \/ game.h_credit[id] = 1
                 \/ IsLive(game, id) /\ ~game.gameOver /\ ~game.gameWon

\* C6: a projectile never subtracts health from an enemy that is no longer in
\* the live collection.
C6_NoDamageOutsideCollection == game.h_staleHit = {}

\* the cells that hold a waypoint of the path
PathCells == {<<CellOf(createPath[k].x), CellOf(createPath[k].y)>> : k \in 1..Len(createPath)}

\* C7: after new Game(canvas) the grid exists and every cell that holds a
\* waypoint of the path has walkable = false.
C7_GridMarksPath ==
    phase # "new"
        => /\ DOMAIN game.grid = 0..(GRID_HEIGHT - 1)
           /\ \A c \in PathCells : ~game.grid[c[2]][c[1]].walkable

\* the grid cell of the latest click
ClickedCell(c) == <<c[2] \div GRID_SIZE, c[3] \div GRID_SIZE>>

\* the cell is a path cell, holds a tower, or lies outside the grid
Blocked(G, cell) == ~InGrid(cell[1], cell[2]) \/ ~G.grid[cell[2]][cell[1]].walkable

\* C8: a click that asks for a tower on a non-walkable cell (path cell, cell
\* with a tower, position outside the grid) creates no tower and leaves the
\* grid and the money unchanged, whatever the money.
C8_Step ==
    (cmd'[1] = "click" /\ game.placingTower /\ Blocked(game, ClickedCell(cmd')))
        => /\ game'.towers = game.towers
           /\ game'.grid = game.grid
           /\ game'.money = game.money

C8_BlockedPlacementFails == [][C8_Step]_vars

\* a tower the player can pay for was asked on a path cell
C8_Witness ==
    /\ phase = "running" /\ cmd[1] = "click"
    /\ ~game.gameOver /\ game.placingTower
    /\ ClickedCell(cmd) \in PathCells
    /\ game.money >= towerTypes[game.selectedTowerType].cost

\* a tower the player can pay for was asked on the cell of another tower
C8_WitnessOccupied ==
    /\ phase = "running" /\ cmd[1] = "click"
    /\ ~game.gameOver /\ game.placingTower
    /\ InGrid(ClickedCell(cmd)[1], ClickedCell(cmd)[2])
    /\ game.grid[ClickedCell(cmd)[2]][ClickedCell(cmd)[1]].tower # NoTower
    /\ game.money >= towerTypes[game.selectedTowerType].cost

\* a tower the player can pay for was asked outside the grid
C8_WitnessOutside ==
    /\ phase = "running" /\ cmd[1] = "click"
    /\ ~game.gameOver /\ game.placingTower
    /\ ~InGrid(ClickedCell(cmd)[1], ClickedCell(cmd)[2])
    /\ game.money >= towerTypes[game.selectedTowerType].cost

\* the tower a click at c would upgrade: the first within range, 0 if none
ClickedTower(G, c) ==
    LET hit == InRangeOfClick(G, c[2], c[3])
    IN  IF hit = {} THEN 0 ELSE CHOOSE i \in hit : \A j \in hit : i <= j

\* the click c asks for a tower the money does not pay
PlacementUnpaid(G, c) ==
    /\ ~G.gameOver /\ G.placingTower
    /\ ~Blocked(G, ClickedCell(c))
    /\ G.money < towerTypes[G.selectedTowerType].cost

\* the click c asks for an upgrade the money does not pay
UpgradeUnpaid(G, c) ==
    /\ ~G.gameOver /\ ~G.placingTower
    /\ ClickedTower(G, c) # 0
    /\ G.money < G.towers[ClickedTower(G, c)].level * 25 + 50

\* C9: a placement with money < cost and an upgrade with money < level*25+50
\* leave money, the towers (level, damage, range, fireRate, upgradeCost of the
\* target included) and the grid unchanged.
C9_Step ==
    (cmd'[1] = "click" /\ (PlacementUnpaid(game, cmd') \/ UpgradeUnpaid(game, cmd')))
        => /\ game'.money = game.money
           /\ game'.towers = game.towers
           /\ game'.grid = game.grid

C9_RejectionChangesNothing == [][C9_Step]_vars

\* an upgrade was asked with less money than level*25+50
C9_Witness ==
    /\ phase = "running" /\ cmd[1] = "click"
    /\ before.towers = game.towers
    /\ before.money = game.money
    /\ UpgradeUnpaid(game, cmd)

\* a tower was asked on a free cell with less money than its cost
C9_WitnessPlacement ==
    /\ phase = "running" /\ cmd[1] = "click"
    /\ PlacementUnpaid(game, cmd)

\* what successive upgrades of a tower of level 1 cost
UpgradePrices == <<75, 100>>

\* C10: an upgrade asked for a tower of level L succeeds exactly when
\* money >= L*25+50; it then takes L*25+50 from money (75 at level 1, 100 at
\* level 2) and raises the level to L+1.
C10_Step ==
    (cmd'[1] = "click" /\ ~game.gameOver /\ ~game.placingTower
        /\ ClickedTower(game, cmd') # 0)
        => LET i == ClickedTower(game, cmd')
               L == game.towers[i].level
           IN  IF game.money >= L * 25 + 50
               THEN /\ game'.money = game.money - (L * 25 + 50)
                    /\ game'.towers[i].level = L + 1
                    /\ L <= Len(UpgradePrices)
                          => game.money - game'.money = UpgradePrices[L]
               ELSE /\ game'.money = game.money
                    /\ game'.towers[i].level = L

C10_UpgradeCharge == [][C10_Step]_vars

\* a tower was upgraded from level 1 to 2 for 75, then from 2 to 3 for 100
C10_Witness ==
    /\ phase = "running" /\ cmd[1] = "click"
    /\ \E i \in 1..Len(game.towers) :
         /\ i <= Len(before.towers)
         /\ before.towers[i].level = 2
         /\ game.towers[i].level = 3
         /\ before.money - game.money = 100

\* the towers of the game
TowerIds == 1..Len(game.towers)

\* the latest input was a Game.update call that found the game running
TickedRunning == Ticked /\ ~before.done

\* C11: right after a tower fires its fireCooldown is 1/fireRate; the
\* simulated time between two consecutive shots of a tower is at least
\* 1/fireRate (of the earlier shot, the larger of the two); a tower pushes at
\* most one projectile in a tick.
C11_FireCooldown ==
    \A i \in TowerIds :
        LET t == game.towers[i]
        IN  /\ (TickedRunning /\ t.h_tickShots > 0)
                  => t.fireCooldown[1] * t.fireRate[1]
                        = Sec(1) * t.fireRate[2] * t.fireCooldown[2]
            /\ t.h_shots >= 2
                  => /\ t.h_gap * t.h_gapRate[1] >= Sec(1) * t.h_gapRate[2]
                     /\ t.h_gap * t.fireRate[1] >= Sec(1) * t.fireRate[2]
            /\ t.h_tickShots <= 1

\* a tower has just fired again, in a frame of 21 s
C11_Witness ==
    /\ TickedRunning /\ cmd[2] = Sec(21)
    /\ \E i \in TowerIds :
         /\ game.towers[i].h_shots >= 2
         /\ game.towers[i].h_tickShots = 1

\* the enemy types of all waves in the order of the wave lists
SpawnOrder ==
    createWaves[1] \o createWaves[2] \o createWaves[3]
        \o createWaves[4] \o createWaves[5] \o createWaves[6]

\* q is what is left of the list w after removals at its front
IsSuffix(q, w) == Len(q) <= Len(w) /\ q = SubSeq(w, Len(w) - Len(q) + 1, Len(w))

\* how many enemies of the waves 1..w have left their spawn queues
RECURSIVE Dequeued(_, _)
Dequeued(G, w) ==
    IF w = 0 THEN 0
    ELSE Dequeued(G, w - 1) + Len(createWaves[w]) - Len(G.waveManager.waves[w])

\* the scheduler is spawning the current wave
Spawning(G) ==
    /\ G.waveManager.currentWaveIndex < Len(G.waveManager.waves)
    /\ G.waveManager.waveCooldown <= 0
    /\ Len(G.waveManager.waves[G.waveManager.currentWaveIndex + 1]) > 0

\* spawn order: every queue is its wave list without a front part, the k-th
\* enemy created is the k-th of the wave lists, the live collection is in
\* order of creation, and the timer stays below one second
C12_Fifo ==
    /\ \A w \in 1..Len(createWaves) : IsSuffix(game.waveManager.waves[w], createWaves[w])
    /\ game.h_spawned = Dequeued(game, Len(createWaves))
    /\ \A i \in 1..Len(game.enemies) :
         /\ game.enemies[i].type = SpawnOrder[game.enemies[i].id]
         /\ \A j \in 1..Len(game.enemies) :
              i < j => game.enemies[i].id < game.enemies[j].id
    /\ ~IsUndefined(game.waveManager.spawnTimer)
          => /\ ValueOf(game.waveManager.spawnTimer) >= 0
             /\ ValueOf(game.waveManager.spawnTimer) < Sec(1)

\* from the start of the game in frames of one second: n enemies after n
\* seconds, until the queue of the first wave is empty
C12_WholeSeconds ==
    (/\ game.waveManager.currentWaveIndex = 0
     /\ \A k \in 1..Len(game.h_dts) : game.h_dts[k] = Sec(1))
        => /\ game.h_spawned = IF Len(game.h_dts) < Len(createWaves[1])
                               THEN Len(game.h_dts) ELSE Len(createWaves[1])
           /\ Len(game.waveManager.waves[1]) = Len(createWaves[1]) - game.h_spawned

\* a tick of a spawning scheduler creates the front enemy of the queue exactly
\* when the timer plus deltaTime reaches one second, and then resets the timer;
\* no input creates more than one enemy, and only ticks create enemies
C12_Step ==
    /\ game.h_spawned <= before.h_spawned + 1
    /\ cmd[1] # "tick" => game.h_spawned = before.h_spawned
    /\ (TickedRunning /\ Spawning(before))
          => LET wm == before.waveManager
                 w == wm.currentWaveIndex + 1
                 timer == (IF IsUndefined(wm.spawnTimer) THEN 0
                           ELSE ValueOf(wm.spawnTimer)) + cmd[2]
             IN  IF timer >= Sec(1)
                 THEN /\ game.h_spawned = before.h_spawned + 1
                      /\ game.waveManager.waves[w] = Tail(wm.waves[w])
                      /\ game.waveManager.spawnTimer = Some(0)
                 ELSE /\ game.h_spawned = before.h_spawned
                      /\ game.waveManager.waves[w] = wm.waves[w]
                      /\ game.waveManager.spawnTimer = Some(timer)

\* C12: enemies are created in FIFO order of the wave list, one each time the
\* accumulated spawn timer reaches one second (the timer is then reset to 0),
\* never more than one per tick; in frames of one second n enemies exist
\* after n seconds until the queue is empty.
C12_SpawnTiming == C12_Fifo /\ C12_WholeSeconds /\ C12_Step

\* five frames of one second from the start of the game: the last two basic
\* enemies of the first wave were created in the last two, the queue is empty
C12_Witness ==
    /\ TickedRunning
    /\ game.waveManager.currentWaveIndex = 0
    /\ Len(game.h_dts) = 5
    /\ \A k \in 1..Len(game.h_dts) : game.h_dts[k] = Sec(1)
    /\ game.h_spawned = 5
    /\ Len(game.waveManager.waves[1]) = 0

\* the number of enemies in the wave lists before wave w
RECURSIVE CreatedBefore(_)
CreatedBefore(w) == IF w <= 1 THEN 0 ELSE CreatedBefore(w - 1) + Len(createWaves[w - 1])

\* the wave (1..6) whose list holds the id-th enemy created
WaveOf(id) ==
    CHOOSE w \in 1..Len(createWaves) : CreatedBefore(w) < id /\ id <= CreatedBefore(w + 1)

\* the simulated time of the update calls of rank from+1 .. to
RECURSIVE Elapsed(_, _, _)
Elapsed(dts, from, to) ==
    IF to <= from THEN 0 ELSE Elapsed(dts, from, to - 1) + dts[to]

\* C13: the wave index advances, starting the cooldown of 5 s, only in a tick
\* that finds the queue of the current wave and the live collection empty;
\* every live enemy belongs to the current wave; at least 5 s of simulated
\* time lie between the advance to a wave and each creation of its enemies.
C13_WavesNeverOverlap ==
    /\ game.waveManager.currentWaveIndex # before.waveManager.currentWaveIndex
          => /\ TickedRunning
             /\ game.waveManager.currentWaveIndex = before.waveManager.currentWaveIndex + 1
             /\ Len(before.waveManager.waves[before.waveManager.currentWaveIndex + 1]) = 0
             /\ Len(before.enemies) = 0
             /\ game.waveManager.waveCooldown = Sec(5)
             /\ game.h_spawned = before.h_spawned
    /\ \A i \in 1..Len(game.enemies) :
          WaveOf(game.enemies[i].id) = game.waveManager.currentWaveIndex + 1
    /\ Len(game.h_advanced) = game.waveManager.currentWaveIndex
    /\ \A id \in EnemyIds :
          /\ WaveOf(id) <= game.waveManager.currentWaveIndex + 1
          /\ WaveOf(id) > 1
                => Elapsed(game.h_dts, game.h_advanced[WaveOf(id) - 1], game.h_born[id])
                      >= Sec(5)

\* the first enemy of wave 2 was created 6 s after the advance to wave 2:
\* 5 s of cooldown and one second of the spawn timer
C13_Witness ==
    /\ TickedRunning
    /\ game.h_spawned = before.h_spawned + 1
    /\ game.h_spawned = CreatedBefore(2) + 1
    /\ Elapsed(game.h_dts, game.h_advanced[1], game.h_born[game.h_spawned]) = Sec(6)

\* the tick found wave 6 spawned out and no live enemy, and advanced the index
C13_WitnessAdvance ==
    /\ TickedRunning
    /\ game.waveManager.currentWaveIndex = before.waveManager.currentWaveIndex + 1
    /\ game.waveManager.waveCooldown = Sec(5)
    /\ \E id \in EnemyIds : WaveOf(id) = Len(createWaves)

\* the rank of the latest Game.update call that ran
Now == Len(game.h_dts)

\* enemy e is within the range of tower t
InRange(t, e) == Dist2(e.x - t.x, e.y - t.y) <= Px(t.range) * Px(t.range)

\* tower i existed before the latest tick and its cooldown ran out in it
Ready(i) ==
    /\ i <= Len(before.towers)
    /\ before.towers[i].fireCooldown[1] - cmd[2] * before.towers[i].fireCooldown[2] <= 0

\* C14: a tick runs the scheduler, then the enemies, then the towers, then the
\* projectiles: an enemy created in a tick has moved in it and is seen by the
\* towers of that tick; a tower never fires at an enemy that the enemy step of
\* the same tick (or an earlier one) removed; a projectile fired in a tick has
\* moved in it.
C14_TickOrder ==
    /\ \A i \in TowerIds :
         LET t == game.towers[i]
         IN  t.h_shots > 0
                => /\ game.h_born[t.h_target] <= t.h_shotAt
                   /\ game.h_gone[t.h_target] = 0 \/ game.h_gone[t.h_target] > t.h_shotAt
    /\ TickedRunning
          => /\ \A k \in 1..Len(game.enemies) :
                  game.h_born[game.enemies[k].id] = Now
                     => game.enemies[k].x > createPath[1].x
             /\ \A i \in TowerIds :
                  LET t == game.towers[i]
                  IN  /\ (Ready(i) /\ \E k \in 1..Len(game.enemies) :
                                        /\ game.h_born[game.enemies[k].id] = Now
                                        /\ InRange(t, game.enemies[k]))
                          => t.h_shotAt = Now
                      /\ t.h_shotAt = Now
                          => /\ IsLive(game, t.h_target)
                             /\ \E j \in 1..Len(game.projectiles) :
                                  /\ game.projectiles[j].target = t.h_target
                                  /\ game.projectiles[j].x # t.x
                                        \/ game.projectiles[j].y # t.y

\* a tower fired at an enemy that the scheduler created in the same tick
C14_Witness ==
    /\ TickedRunning
    /\ \E i \in TowerIds :
         /\ game.towers[i].h_shotAt = Now
         /\ game.h_born[game.towers[i].h_target] = Now

\* C15: once the wave index has reached the end of the wave list, no input
\* creates an enemy or changes the wave index, the cooldown, the spawn timer
\* or the spawn queues.
C15_AllCompleteIsTerminal ==
    AllComplete(before)
        => /\ game.waveManager = before.waveManager
           /\ game.h_spawned = before.h_spawned

\* Game.update ran with the wave index already at the end of the list
C15_Witness ==
    /\ TickedRunning
    /\ AllComplete(before)
    /\ Now > 0 /\ game.h_dts[Now] = cmd[2]

\* the positions in game.enemies of the enemies within the range of tower t
Candidates(t) == {k \in 1..Len(game.enemies) : InRange(t, game.enemies[k])}

\* the squared distance of game.enemies[k] from tower t
Away2(t, k) == Dist2(game.enemies[k].x - t.x, game.enemies[k].y - t.y)

\* the nearest of the candidates, the first in the collection among equals
Nearest(t) ==
    CHOOSE k \in Candidates(t) :
        \A j \in Candidates(t) :
            Away2(t, k) < Away2(t, j) \/ (Away2(t, k) = Away2(t, j) /\ k <= j)

\* C16: in a tick, a tower whose fireCooldown is <= 0 after the subtraction of
\* deltaTime fires at the nearest enemy of the live collection within its
\* range, the first in iteration order among equally near ones; with no enemy
\* in range it fires nothing and its fireCooldown stays <= 0; a tower whose
\* fireCooldown is still > 0 does not fire.
C16_NearestTarget ==
    TickedRunning =>
        \A i \in TowerIds :
            LET t == game.towers[i]
            IN  IF Ready(i) /\ Candidates(t) # {}
                THEN /\ t.h_shotAt = Now
                     /\ t.h_target = game.enemies[Nearest(t)].id
                ELSE /\ t.h_shotAt # Now
                     /\ t.h_tickShots = 0
                     /\ t.h_shots = before.towers[i].h_shots
                     /\ Ready(i) => t.fireCooldown[1] <= 0

\* a tower fired with two enemies of the collection equally near, both nearest
C16_Witness ==
    /\ TickedRunning
    /\ \E i \in TowerIds :
         LET t == game.towers[i]
         IN  /\ t.h_shotAt = Now
             /\ \E k \in Candidates(t) :
                  /\ k # Nearest(t)
                  /\ Away2(t, k) = Away2(t, Nearest(t))

\* a tower was ready and found no enemy within its range, with enemies alive
C16_WitnessNoTarget ==
    /\ TickedRunning
    /\ Len(game.enemies) > 0
    /\ \E i \in TowerIds : Ready(i) /\ Candidates(game.towers[i]) = {}

\* C17: in every state, the upgradeCost field stored in every tower equals
\* level * 25 + 50, the amount upgradeTower compares with money and deducts
\* for the tower's next upgrade.
C17_StoredUpgradeCost ==
    \A i \in TowerIds :
        /\ game.towers[i].upgradeCost = game.towers[i].level * 25 + 50
        /\ game.towers[i].upgradeCost = UpgradeCost(game.towers[i])

\* C18: money is never negative, whatever the ticks, placements and upgrades.
C18_MoneyNeverNegative == game.money >= 0

\* a purchase has just spent the last of the money
C18_Witness ==
    /\ cmd[1] = "click"
    /\ game.money < before.money
    /\ game.money = 0

\* what the upgrades of a tower from level 1 to level have cost
RECURSIVE UpgradesPaid(_)
UpgradesPaid(level) ==
    IF level <= 1 THEN 0 ELSE UpgradesPaid(level - 1) + ((level - 1) * 25 + 50)

\* the costs of the placements and upgrades that made the towers 1..n
RECURSIVE Spent(_)
Spent(n) ==
    IF n = 0 THEN 0
    ELSE Spent(n - 1) + towerTypes[game.towers[n].type].cost
                      + UpgradesPaid(game.towers[n].level)

\* the rewards of the enemies 1..n that the enemy loop removed for health <= 0
RECURSIVE Rewards(_)
Rewards(n) ==
    IF n = 0 THEN 0
    ELSE Rewards(n - 1) + IF game.h_fate[n] = "killed"
                          THEN enemyTypes[SpawnOrder[n]].reward ELSE 0

\* C19: in every state money = 150 + score - (the costs of all successful
\* placements and upgrades), score is the sum of the rewards of the enemies
\* removed by death, and no input makes score smaller.
C19_EconomyConservation ==
    /\ game.money = 150 + game.score - Spent(Len(game.towers))
    /\ game.score = Rewards(game.h_spawned)
    /\ game.score >= before.score

\* a tower was placed and upgraded, enemies were killed and others escaped, and
\* the latest tick has paid a reward
C19_Witness ==
    /\ \E i \in TowerIds : game.towers[i].level > 1
    /\ \E id \in EnemyIds : game.h_fate[id] = "escaped"
    /\ Ticked
    /\ game.score > before.score

\* C20: when the towers of a tick select their targets, every enemy of the
\* live collection has health > 0, and the enemy a tower fires at has
\* health > 0 at the time of the shot.
C20_NoDeadTarget ==
    /\ \A k \in 1..Len(game.h_aimed) : game.h_aimed[k].health > 0
    /\ \A i \in TowerIds :
         game.towers[i].h_shots > 0 => game.towers[i].h_targetHealth > 0

\* the tick found an enemy with health <= 0 in the collection, removed it
\* before the towers looked, and a tower fired at another enemy
C20_Witness ==
    /\ TickedRunning
    /\ \E k \in 1..Len(before.enemies) :
         /\ before.enemies[k].health <= 0
         /\ \A j \in 1..Len(game.h_aimed) : game.h_aimed[j].id # before.enemies[k].id
    /\ \E i \in TowerIds : game.towers[i].h_shotAt = Now

\* how many lives the enemies 1..n have taken
RECURSIVE Escapes(_)
Escapes(n) == IF n = 0 THEN 0 ELSE Escapes(n - 1) + game.h_lost[n]

\* how often enemy id appears in the live collection
Occurrences(id) ==
    Cardinality({k \in 1..Len(game.enemies) : game.enemies[k].id = id})

\* C21: every enemy leaves the live collection at most once and for one
\* reason, its reward paid or a life taken, never both; an enemy that has
\* health <= 0 and is past the right boundary when it is removed is a kill
\* (reward paid, no life taken); lives is 20 minus the number of enemies
\* removed as escapes.
C21_RemovedOnceForOneReason ==
    /\ \A id \in EnemyIds :
         /\ game.h_credit[id] + game.h_lost[id] + Occurrences(id) = 1
         /\ game.h_fate[id] = "killed"  <=> game.h_credit[id] = 1
         /\ game.h_fate[id] = "escaped" <=> game.h_lost[id] = 1
         /\ game.h_fate[id] = "live"    <=> Occurrences(id) = 1
    /\ \A id \in game.h_deadPast :
         game.h_credit[id] = 1 /\ game.h_lost[id] = 0
    /\ game.lives = 20 - Escapes(game.h_spawned)

\* the latest tick removed an enemy that had health <= 0 and was past the
\* right boundary, and another enemy has escaped
C21_Witness ==
    /\ TickedRunning
    /\ \E id \in game.h_deadPast : game.h_gone[id] = Now
    /\ \E id \in EnemyIds : game.h_lost[id] = 1

====
